---- MODULE Spec2Model ----
(***************************************************************************)
(* Model of custom_components/scene_sequencer/__init__.py: the             *)
(* scene_sequencer.cycle service handler (handle_sequence), the key        *)
(* derivation (generate_key) and the state-match check                     *)
(* (is_current_state_matching_scene).                                      *)
(*                                                                         *)
(* Python values are records tagged with their type.  A dict is a function *)
(* whose DOMAIN is the dict's key set.  A JSON text is represented by the  *)
(* JSON value it denotes (json.loads returns it, json.dumps builds it), or *)
(* by a text that denotes none.  Wall-clock time is in whole seconds.      *)
(***************************************************************************)
EXTENDS Integers, Sequences, FiniteSets, TLC

\* ------------------------------------------------------------- constants
STORE_SENSOR == "binary_sensor.scene_sequencer_store"
JSON_ATTR == "data"
TIMEOUT_PROPERTY == "go_to_last_timeout"
JSON_INDEX_PROPERTY == "idx"
JSON_TIMESTAMP_PROPERTY == "ts"
JSON_LAST_USED_PROPERTY == "last_used"
CLEANUP_AGE_SECONDS == 10 * 24 * 60 * 60

\* ---------------------------------------------------------------- bounds
\* Number of clock advances and of service calls in one behaviour.
MaxTicks == 2
MaxCalls == 3
\* The timeout value (seconds) callers pass when they pass a non-zero one.
TimeoutSeconds == 60

\* -------------------------------------------------------- python helpers
\* dict.get(k, default)
Get(d, k, default) == IF k \in DOMAIN d THEN d[k] ELSE default

EmptyDict == [k \in {} |-> 0]

Last(s) == s[Len(s)]

\* A state object of the host's state machine; Absent is hass.states.get
\* returning None.
Absent == [present |-> FALSE, state |-> "", attributes |-> EmptyDict]
StateObj(s, attrs) == [present |-> TRUE, state |-> s, attributes |-> attrs]

\* hass.states.get(entity_id) on a state machine h (a dict of state objects)
StatesGet(h, id) == Get(h, id, Absent)

\* ------------------------------------------------------------ generate_key
RECURSIVE Join(_)
\* ",".join(scenes)
Join(scenes) ==
  IF scenes = <<>> THEN ""
  ELSE IF Len(scenes) = 1 THEN scenes[1]
  ELSE scenes[1] \o "," \o Join(Tail(scenes))

\* hashlib.md5(text.encode()).hexdigest()[:10], tabulated for the texts the
\* model's sequences join to.
Md5Hex10(text) ==
  CASE text = "a,b" -> "b345e1dc09"
    [] text = "a,b,c" -> "a44c56c817"

generate_key(scenes) == Md5Hex10(Join(scenes))

\* ------------------------------------------ is_current_state_matching_scene
RECURSIVE MatchLoop(_, _, _)
\* The for loop of lines 53-68 over the remaining entities, with its early
\* returns.
MatchLoop(h, scene_state, scene_entities) ==
  IF scene_entities = <<>> THEN TRUE
  ELSE
    LET entity == Head(scene_entities)
        current_state == StatesGet(h, entity)
        scene_attributes ==
          Get(Get(scene_state.attributes, "attributes", EmptyDict), entity, EmptyDict)
        expected_state == Get(scene_attributes, "state", "off")
    IN IF ~current_state.present THEN FALSE
       ELSE IF current_state.state # expected_state THEN FALSE
       ELSE MatchLoop(h, scene_state, Tail(scene_entities))

\* The check without the test for an empty entity list.
MatchOfEmptyList(h, scene) ==
  LET scene_state == StatesGet(h, scene)
  IN IF ~scene_state.present THEN FALSE
     ELSE MatchLoop(h, scene_state, Get(scene_state.attributes, "entity_id", <<>>))

is_current_state_matching_scene(h, scene) ==
  LET scene_state == StatesGet(h, scene)
  IN IF ~scene_state.present \/ Get(scene_state.attributes, "entity_id", <<>>) = <<>>
     THEN FALSE
     ELSE MatchLoop(h, scene_state, Get(scene_state.attributes, "entity_id", <<>>))

\* ----------------------------------------------------------- python values
PyNone == [type |-> "NoneType", v |-> EmptyDict]
PyList(items) == [type |-> "list", v |-> items]
PyDict(d) == [type |-> "dict", v |-> d]
PyStr(s) == [type |-> "str", v |-> s]
PyNum(n) == [type |-> "int", v |-> n]

\* bool(x) for the values a timeout can be: None and 0 are falsy.
Truthy(x) == x.type = "int" /\ x.v # 0

\* JSON values: an object (its members a dict), or something else.  The
\* leaves of a sequence entry (idx, ts, last_used) are plain numbers.
JMap(m) == [j |-> "map", m |-> m]
JList == [j |-> "list", m |-> EmptyDict]
JNum == [j |-> "num", m |-> EmptyDict]

\* A str holding a JSON text that denotes `value`, and one holding no JSON.
JsonText(value) == PyStr([json |-> TRUE, value |-> value])
NotJsonText == PyStr([json |-> FALSE, value |-> JNum])

\* json.loads: TypeError on a non-str, JSONDecodeError on a non-JSON text.
json_loads(x) ==
  IF x.type = "str" /\ x.v.json
  THEN [ok |-> TRUE, value |-> x.v.value]
  ELSE [ok |-> FALSE, value |-> JNum]

\* json.dumps
json_dumps(value) == JsonText(value)

\* --------------------------------------------------------- handle_sequence
\* The scene list taken from a list only.
ExtractScenesListOnly(raw) == IF raw.type = "list" THEN raw.v ELSE <<>>

\* The scene list taken from whatever member a dict without entity_id has.
ExtractScenesAnyKey(raw) ==
  IF raw.type = "dict" /\ "entity_id" \in DOMAIN raw.v THEN raw.v["entity_id"]
  ELSE IF raw.type = "dict" /\ DOMAIN raw.v # {}
  THEN raw.v[CHOOSE k \in DOMAIN raw.v : TRUE]
  ELSE IF raw.type = "list" THEN raw.v
  ELSE <<>>

\* Lines 96-102: the scene list out of the call data.
ExtractScenes(raw) ==
  IF raw.type = "dict" /\ "entity_id" \in DOMAIN raw.v THEN raw.v["entity_id"]
  ELSE IF raw.type = "list" THEN raw.v
  ELSE <<>>

\* Lines 115-120: the stored mapping; any exception of the read or the parse
\* gives the empty mapping.
LoadMapping(state) ==
  LET data == IF state.present
              THEN Get(state.attributes, JSON_ATTR, JsonText(JMap(EmptyDict)))
              ELSE JsonText(JMap(EmptyDict))
      loaded == json_loads(data)
  IN IF loaded.ok THEN loaded.value ELSE JMap(EmptyDict)

\* Lines 125-127 raise outside the try block: mapping.items() on a value
\* that is no dict (AttributeError), `in` on a member that is a number
\* (TypeError).
CleanupRaises(mapping) ==
  \/ mapping.j # "map"
  \/ \E k \in DOMAIN mapping.m : mapping.m[k].j # "map"

\* The age compared with the retention window taken in milliseconds.
IsExpiredMillis(v, current_time) ==
  /\ JSON_LAST_USED_PROPERTY \in DOMAIN v.m
  /\ (current_time - v.m[JSON_LAST_USED_PROPERTY]) > CLEANUP_AGE_SECONDS * 1000

\* An age of exactly the retention window taken as expired.
IsExpiredInclusive(v, current_time) ==
  /\ JSON_LAST_USED_PROPERTY \in DOMAIN v.m
  /\ (current_time - v.m[JSON_LAST_USED_PROPERTY]) >= CLEANUP_AGE_SECONDS

\* Lines 126-127: the condition of the list comprehension.
IsExpired(v, current_time) ==
  /\ JSON_LAST_USED_PROPERTY \in DOMAIN v.m
  /\ (current_time - v.m[JSON_LAST_USED_PROPERTY]) > CLEANUP_AGE_SECONDS

\* Lines 124-128: the keys of the expired entries.
KeysToRemove(mapping, current_time) ==
  {k \in DOMAIN mapping.m : IsExpired(mapping.m[k], current_time)}

\* The mapping with every entry left in it.
CleanupNothing(mapping, current_time) == mapping

\* Lines 129-130: the mapping without them.
Cleanup(mapping, current_time) ==
  JMap([k \in DOMAIN mapping.m \ KeysToRemove(mapping, current_time) |-> mapping.m[k]])

\* Line 133: the default entry.
DefaultEntry == JMap(JSON_INDEX_PROPERTY :> 0 @@ JSON_TIMESTAMP_PROPERTY :> 0)

\* Line 138.
AdvanceIndex(idx, scenes) == (idx + 1) % Len(scenes)

\* The scene after the advancement instead of the one before it.
DefaultTargetAdvanced(idx, scenes) == scenes[((idx + 1) % Len(scenes)) + 1]

\* Line 140 (sequences are 1-based here).
DefaultTarget(idx, scenes) == scenes[(idx % Len(scenes)) + 1]

\* The timeout branch taken only after more than the timeout.
TimeoutFiresStrict(go_to_last_timeout, last_ts, now_ts) ==
  /\ Truthy(go_to_last_timeout)
  /\ last_ts > 0
  /\ (now_ts - last_ts) > go_to_last_timeout.v

\* The timeout branch taken for any timeout given, zero included.
TimeoutFiresOnZero(go_to_last_timeout, last_ts, now_ts) ==
  /\ go_to_last_timeout.type = "int"
  /\ last_ts > 0
  /\ (now_ts - last_ts) >= go_to_last_timeout.v

\* Line 143: the condition of the timeout branch.
TimeoutFires(go_to_last_timeout, last_ts, now_ts) ==
  /\ Truthy(go_to_last_timeout)
  /\ last_ts > 0
  /\ (now_ts - last_ts) >= go_to_last_timeout.v

\* The timeout branch with its next index reduced modulo the length.
TimeoutJumpWrapped(matching, scenes) ==
  IF matching
  THEN [target_scene |-> scenes[1], new_idx |-> 1 % Len(scenes)]
  ELSE [target_scene |-> Last(scenes), new_idx |-> 0]

\* Lines 145-150: target scene and next index of the timeout branch.
TimeoutJump(matching, scenes) ==
  IF matching
  THEN [target_scene |-> scenes[1], new_idx |-> 1]
  ELSE [target_scene |-> Last(scenes), new_idx |-> 0]

\* The timestamp left as read at line 139.
NormalizeTsNever(new_idx, now_ts) == now_ts

\* Lines 153-154.
NormalizeTs(new_idx, now_ts) == IF new_idx = 0 THEN 0 ELSE now_ts

\* What an invocation holds when it has no scenes (line 106) or has not run.
NoLocals ==
  [scenes |-> <<>>, key |-> "", keys_to_remove |-> {}, mapping |-> JMap(EmptyDict),
   new_idx |-> 0, now_ts |-> 0, target_scene |-> "", queried |-> FALSE]

\* Lines 95-155: the handler up to the awaited scene activation, on call
\* data `data`, the store sensor's state object `state`, the state machine
\* `h` and the clock reading `now` (lines 123 and 139 run without a
\* suspension between them).  status is "returned" (line 106), "raised"
\* (an exception left the handler) or "awaiting" (line 157).
handle_sequence(data, state, h, now) ==
  LET raw == Get(data, "scenes", PyList(<<>>))
      scenes == ExtractScenes(raw)
      go_to_last_timeout == Get(data, TIMEOUT_PROPERTY, PyNone)
      loaded == LoadMapping(state)
  IN IF scenes = <<>> THEN [status |-> "returned", locals |-> NoLocals]
     ELSE IF CleanupRaises(loaded)
     THEN [status |-> "raised",
           locals |-> [NoLocals EXCEPT !.scenes = scenes, !.key = generate_key(scenes)]]
     ELSE
       LET key == generate_key(scenes)
           mapping == Cleanup(loaded, now)
           entry == Get(mapping.m, key, DefaultEntry)
           idx == Get(entry.m, JSON_INDEX_PROPERTY, 0)
           last_ts == Get(entry.m, JSON_TIMESTAMP_PROPERTY, 0)
           fires == TimeoutFires(go_to_last_timeout, last_ts, now)
           jump == TimeoutJump(is_current_state_matching_scene(h, Last(scenes)), scenes)
           new_idx == IF fires THEN jump.new_idx ELSE AdvanceIndex(idx, scenes)
           target_scene == IF fires THEN jump.target_scene ELSE DefaultTarget(idx, scenes)
       IN [status |-> "awaiting",
           locals |-> [scenes |-> scenes, key |-> key,
                       keys_to_remove |-> KeysToRemove(loaded, now), mapping |-> mapping,
                       new_idx |-> new_idx, now_ts |-> NormalizeTs(new_idx, now),
                       target_scene |-> target_scene, queried |-> fires]]

\* Lines 164-168: the entry written for the sequence.
NewEntry(locals, now) ==
  JMap(JSON_INDEX_PROPERTY :> locals.new_idx
       @@ JSON_TIMESTAMP_PROPERTY :> locals.now_ts
       @@ JSON_LAST_USED_PROPERTY :> now)

\* Lines 164-171: the state object set on the store sensor.
StoreAfter(locals, now) ==
  LET m == locals.mapping.m
      written == [k \in DOMAIN m \cup {locals.key} |->
                    IF k = locals.key THEN NewEntry(locals, now) ELSE m[k]]
  IN StateObj("True", JSON_ATTR :> json_dumps(JMap(written)))

\* ------------------------------------------------------------ the inputs
\* The scene lists callers cycle through.  ["a","b"] and ["a,b"] join to the
\* same text, hence to the same key.
Sequences == {<<"a", "b">>, <<"a,b">>, <<"a", "b", "c">>}
SceneIds == {"a", "b", "c", "a,b"}
Lights == {"x", "y"}

\* call.data["scenes"]: a list, a dict with entity_id, a dict without, a str.
SceneArgs ==
  {PyList(L) : L \in Sequences \cup {<<>>}}
    \cup {PyDict([entity_id |-> L]) : L \in {<<"a", "b", "c">>, <<>>}}
    \cup {PyDict([area_id |-> <<"a", "b">>]), PyStr("a")}

\* call.data: scenes and go_to_last_timeout, either of them possibly missing.
CallData ==
  {[scenes |-> s] : s \in SceneArgs}
    \cup {[scenes |-> PyList(L), go_to_last_timeout |-> PyNum(t)] :
            L \in Sequences, t \in {0, TimeoutSeconds}}
    \cup {EmptyDict}

\* The state of a light, and of a scene entity: unknown to the state machine,
\* without an entity_id attribute, with an empty one, with members whose
\* states it gives or leaves out.
LiveStates == {Absent, StateObj("on", EmptyDict), StateObj("off", EmptyDict)}
SceneStates ==
  {Absent,
   StateObj("unknown", EmptyDict),
   StateObj("unknown", [entity_id |-> <<>>]),
   StateObj("unknown", [entity_id |-> <<"x">>]),
   StateObj("unknown", [entity_id |-> <<"x", "y">>,
                        attributes |-> [x |-> [state |-> "on"], y |-> [brightness |-> 1]]]),
   StateObj("unknown", [entity_id |-> <<"y", "x">>,
                        attributes |-> [x |-> [state |-> "on"]]])}

\* What the store sensor holds before the first call: no such entity, no
\* data attribute, an empty mapping, a text that is no JSON, a value that is
\* no str, JSON that is no object, a JSON object with a member that is none.
InitialStores ==
  {Absent,
   StateObj("True", EmptyDict),
   StateObj("True", JSON_ATTR :> JsonText(JMap(EmptyDict))),
   StateObj("True", JSON_ATTR :> NotJsonText),
   StateObj("True", JSON_ATTR :> PyNum(7)),
   StateObj("True", JSON_ATTR :> JsonText(JList)),
   StateObj("True", JSON_ATTR :> JsonText(JMap("zz" :> JNum)))}

\* The state machine in which every scene has state object d and the lights
\* have the state objects l gives them.
HassOf(d, l) == [id \in SceneIds \cup Lights |-> IF id \in SceneIds THEN d ELSE l[id]]

\* The invocations of the handler that may be under way at a time.
Procs == {1, 2}

\* ------------------------------------------------------------- the state
VARIABLES
  clock,   \* time.time()
  store,   \* hass.states.get(STORE_SENSOR)
  hass,    \* the state objects of the scenes and of the lights
  inv,     \* per invocation of handle_sequence: where it is, its locals
  run,     \* the present run of successive calls on one sequence
  checked, \* the last answer of the state-match check asked on its own
  ticks,   \* clock advances so far
  calls,   \* service calls so far
  race     \* of invocations that overlap: whether they did, what each read,
           \* who wrote when

vars == <<clock, store, hass, inv, run, checked, ticks, calls, race>>

NotChecked == [scene |-> "", result |-> FALSE]

NoRun == [scenes |-> <<>>, n |-> 0, fresh |-> TRUE]

NoRace == [overlapped |-> FALSE, read |-> [p \in Procs |-> Absent], writers |-> <<>>]

Idle ==
  [pc |-> "idle", data |-> EmptyDict, call_time |-> 0,
   locals |-> NoLocals, events |-> <<>>]

Init ==
  /\ clock = 1
  /\ store \in InitialStores
  /\ hass \in {HassOf(StateObj("unknown", [entity_id |-> <<"x">>]), l) :
                 l \in [Lights -> {StateObj("off", EmptyDict)}]}
  /\ inv = [p \in Procs |-> Idle]
  /\ run = NoRun
  /\ checked = NotChecked
  /\ ticks = 0
  /\ calls = 0
  /\ race = NoRace

\* ------------------------------------------------------------ the actions
\* The run of successive no-timeout calls on one sequence, as a call with
\* `data` and `locals` reaches its scene activation: it goes on, starts (the
\* store holds no entry for the sequence) or ends.  fresh: no call of the run came more than
\* CLEANUP_AGE_SECONDS after the write before it.
RunAfter(data, locals) ==
  LET S == locals.scenes
      before == LoadMapping(store).m
      had == locals.key \in DOMAIN before
      late == had /\ clock - before[locals.key].m[JSON_LAST_USED_PROPERTY]
                       > CLEANUP_AGE_SECONDS
  IN IF TIMEOUT_PROPERTY \in DOMAIN data THEN NoRun
     ELSE IF run.n >= 1 /\ run.scenes = S
     THEN [scenes |-> S, n |-> run.n + 1, fresh |-> run.fresh /\ ~late]
     ELSE IF ~had THEN [scenes |-> S, n |-> 1, fresh |-> TRUE]
     ELSE NoRun

\* handle_sequence runs for a service call up to its return, its exception
\* or its await of the scene activation (lines 95-161).  The light is in
\* state x by the time of the call.
Enter(p, data, x) ==
  /\ calls < MaxCalls
  /\ hass' = [hass EXCEPT !["x"] = x]
  /\ LET r == handle_sequence(data, store, hass', clock)
     IN /\ inv' = [inv EXCEPT ![p] =
                     [pc |-> r.status, data |-> data, call_time |-> clock,
                      locals |-> r.locals,
                      events |-> IF r.status = "awaiting" THEN <<"activate">> ELSE <<>>]]
        /\ run' = IF r.status = "awaiting" THEN RunAfter(data, r.locals) ELSE NoRun
  /\ calls' = calls + 1
  /\ UNCHANGED <<clock, store, checked, ticks>>

\* The dispatcher takes a service call when no other call is under way.
Begin(p, data, x) ==
  /\ \A q \in Procs : inv[q].pc # "awaiting"
  /\ Enter(p, data, x)
  /\ UNCHANGED race

\* The store write of lines 163-171 as it would be were the entry put into
\* the mapping the store holds at the time of the write.
WriteMerged(p) ==
  /\ inv[p].pc = "awaiting"
  /\ store' = StoreAfter([inv[p].locals EXCEPT
                            !.mapping = Cleanup(LoadMapping(store), inv[p].call_time)],
                         clock)
  /\ inv' = [inv EXCEPT ![p].pc = "done",
                        ![p].events = @ \o <<"activated", "write">>]
  /\ UNCHANGED <<clock, hass, run, checked, ticks, calls>>

\* scene.turn_on has been applied: the handler resumes and writes the store
\* (lines 163-171).
Write(p) ==
  /\ inv[p].pc = "awaiting"
  /\ store' = StoreAfter(inv[p].locals, clock)
  /\ inv' = [inv EXCEPT ![p].pc = "done",
                        ![p].events = @ \o <<"activated", "write">>]
  /\ UNCHANGED <<clock, hass, run, checked, ticks, calls>>

Finish(p) == Write(p) /\ UNCHANGED race

\* scene.turn_on raising only after the store has been written.
FailWritten(p) ==
  /\ inv[p].pc = "awaiting"
  /\ store' = StoreAfter(inv[p].locals, clock)
  /\ inv' = [inv EXCEPT ![p].pc = "failed", ![p].events = @ \o <<"write", "error">>]
  /\ run' = NoRun
  /\ UNCHANGED <<clock, hass, checked, ticks, calls, race>>

\* scene.turn_on raises: the exception leaves the handler at line 157.
Fail(p) ==
  /\ inv[p].pc = "awaiting"
  /\ inv' = [inv EXCEPT ![p].pc = "failed", ![p].events = @ \o <<"error">>]
  /\ run' = NoRun
  /\ UNCHANGED <<clock, store, hass, checked, ticks, calls, race>>

\* Time passes, as long as a call is under way or may still come.
Tick(d) ==
  /\ ticks < MaxTicks
  /\ calls < MaxCalls \/ \E q \in Procs : inv[q].pc = "awaiting"
  /\ clock' = clock + d
  /\ ticks' = ticks + 1
  /\ UNCHANGED <<store, hass, inv, run, checked, calls, race>>

\* An entity changes state, or leaves the state machine.
SetState(id, s) ==
  /\ hass[id] # s
  /\ hass' = [hass EXCEPT ![id] = s]
  /\ UNCHANGED <<clock, store, inv, run, checked, ticks, calls, race>>

\* The states the light may be in at a call: only a call with a timeout
\* (line 143) reads the state machine, another call leaves the light as it is.
LightAt(data) ==
  IF Truthy(Get(data, TIMEOUT_PROPERTY, PyNone))
    THEN {StateObj("on", EmptyDict), StateObj("off", EmptyDict)}
    ELSE {hass["x"]}

Next ==
  \/ \E data \in CallData : \E x \in LightAt(data) : Begin(1, data, x)
  \/ Finish(1)
  \/ Fail(1)
  \/ \E d \in {TimeoutSeconds, CLEANUP_AGE_SECONDS} : Tick(d)

Spec == Init /\ [][Next]_vars

\* ------------------------------------------------- overlapping invocations
\* The state machine before any call, all lights off.
Hass0 ==
  HassOf(StateObj("unknown", [entity_id |-> <<"x">>]),
         [l \in Lights |-> StateObj("off", EmptyDict)])

\* The store sensor after a completed call on L made at time 1 on `state`.
AfterCall(state, L) ==
  StoreAfter(handle_sequence([scenes |-> PyList(L)], state, Hass0, 1).locals, 1)

\* The stores two overlapping invocations may find: the empty mapping, and
\* what one or two earlier calls have left.
OverlapStores ==
  LET empty == StateObj("True", JSON_ATTR :> JsonText(JMap(EmptyDict)))
      once == {AfterCall(empty, L) : L \in Sequences}
  IN {empty} \cup once \cup {AfterCall(st, L) : st \in once, L \in Sequences}

\* The calls that overlap: a list, with or without a timeout.
OverlapData ==
  {[scenes |-> PyList(L)] : L \in Sequences}
    \cup {[scenes |-> PyList(L), go_to_last_timeout |-> PyNum(TimeoutSeconds)] :
            L \in Sequences}

\* The event loop takes a service call whatever other invocation is suspended
\* at its scene activation (line 157).
BeginOverlapping(p, data, x) ==
  /\ inv[p].pc = "idle"
  /\ Enter(p, data, x)
  /\ race' = [race EXCEPT
                !.overlapped = @ \/ /\ inv'[p].pc = "awaiting"
                                    /\ \E q \in Procs \ {p} : inv[q].pc = "awaiting",
                !.read[p] = store]

\* An invocation resumes and writes the store.
FinishOverlapping(p) ==
  /\ Write(p)
  /\ race' = [race EXCEPT !.writers = Append(@, [p |-> p, at |-> clock])]

InitOverlap ==
  /\ clock = 1
  /\ store \in OverlapStores
  /\ hass = Hass0
  /\ inv = [p \in Procs |-> Idle]
  /\ run = NoRun
  /\ checked = NotChecked
  /\ ticks = 0
  /\ calls = 0
  /\ race = NoRace

NextOverlap ==
  \/ \E p \in Procs, data \in OverlapData : \E x \in LightAt(data) :
       BeginOverlapping(p, data, x)
  \/ \E p \in Procs : FinishOverlapping(p)
  \/ \E p \in Procs : Fail(p)
  \/ \E d \in {TimeoutSeconds, CLEANUP_AGE_SECONDS} : Tick(d)

SpecOverlap == InitOverlap /\ [][NextOverlap]_vars

\* ------------------------------------------- the state-match check alone
\* The check is asked about a scene (the call of line 145) on whatever the
\* state machine holds.
Check(scene) ==
  /\ checked' = [scene |-> scene, result |-> is_current_state_matching_scene(hass, scene)]
  /\ UNCHANGED <<clock, store, hass, inv, run, ticks, calls, race>>

InitMatch ==
  /\ clock = 1
  /\ store = Absent
  /\ hass \in {HassOf(d, l) : d \in SceneStates, l \in [Lights -> LiveStates]}
  /\ inv = [p \in Procs |-> Idle]
  /\ run = NoRun
  /\ checked = NotChecked
  /\ ticks = 0
  /\ calls = 0
  /\ race = NoRace

NextMatch ==
  \/ \E scene \in SceneIds : Check(scene)
  \/ \E id \in Lights, s \in LiveStates : SetState(id, s)
  \/ \E scene \in SceneIds, d \in SceneStates : SetState(scene, d)

SpecMatch == InitMatch /\ [][NextMatch]_vars

\* ------------------------------------------------------------ the claims
\* The state an entity must hold for scene_state's scene: the one the scene
\* gives for it, "off" when it gives none.
ExpectedState(scene_state, entity) ==
  LET a == scene_state.attributes
  IN IF /\ "attributes" \in DOMAIN a
        /\ entity \in DOMAIN a["attributes"]
        /\ "state" \in DOMAIN a["attributes"][entity]
     THEN a["attributes"][entity]["state"]
     ELSE "off"

\* The scene resolves, lists at least one entity, and every entity it lists
\* has a live state equal to the expected one.
SceneHolds(h, scene) ==
  /\ scene \in DOMAIN h
  /\ h[scene].present
  /\ "entity_id" \in DOMAIN h[scene].attributes
  /\ h[scene].attributes["entity_id"] # <<>>
  /\ \A i \in 1..Len(h[scene].attributes["entity_id"]) :
       LET e == h[scene].attributes["entity_id"][i]
       IN /\ e \in DOMAIN h
          /\ h[e].present
          /\ h[e].state = ExpectedState(h[scene], e)

\* C10: the state-match check answers "match" exactly when the scene
\* resolves, lists a non-empty set of entities and each of them has a live
\* state equal to the state the scene defines for it ("off" by default);
\* in every other case it answers "does not match".
C10_MatchIffAllEntitiesHold ==
  \A scene \in SceneIds :
    is_current_state_matching_scene(hass, scene) <=> SceneHolds(hass, scene)

\* The check has answered "match" for a scene of two entities, one with a
\* given state and one on the default.
C10_Witness ==
  /\ checked.scene = "b"
  /\ checked.result
  /\ is_current_state_matching_scene(hass, "b")
  /\ Len(hass["b"].attributes["entity_id"]) = 2
  /\ \E e \in Lights : ExpectedState(hass["b"], e) = "on"
  /\ \E e \in Lights : ExpectedState(hass["b"], e) = "off"


\* -------------------------------------------------- claims on the handler
\* The store sensor holds a JSON object whose members are sequence entries.
WellFormedStore(state) ==
  /\ state.present
  /\ JSON_ATTR \in DOMAIN state.attributes
  /\ state.attributes[JSON_ATTR].type = "str"
  /\ state.attributes[JSON_ATTR].v.json
  /\ LET value == state.attributes[JSON_ATTR].v.value
     IN /\ value.j = "map"
        /\ \A k \in DOMAIN value.m :
             /\ value.m[k].j = "map"
             /\ DOMAIN value.m[k].m = {"idx", "ts", "last_used"}

\* The entries of a well-formed store, by key (each a dict of idx, ts and
\* last_used); none otherwise.
Entries(state) ==
  IF WellFormedStore(state)
  THEN [k \in DOMAIN state.attributes[JSON_ATTR].v.value.m |->
          state.attributes[JSON_ATTR].v.value.m[k].m]
  ELSE EmptyDict

\* The call data carries no scene list: none at all, an empty one, or a value
\* that is neither a list nor a dict with entity_id.
NoSceneList(data) ==
  \/ "scenes" \notin DOMAIN data
  \/ data["scenes"].type \notin {"list", "dict"}
  \/ data["scenes"].type = "list" /\ data["scenes"].v = <<>>
  \/ data["scenes"].type = "dict" /\ "entity_id" \notin DOMAIN data["scenes"].v
  \/ /\ data["scenes"].type = "dict"
     /\ "entity_id" \in DOMAIN data["scenes"].v
     /\ data["scenes"].v["entity_id"] = <<>>

\* A timeout is configured: given and not zero.
TimeoutConfigured(data) ==
  TIMEOUT_PROPERTY \in DOMAIN data /\ data[TIMEOUT_PROPERTY].v # 0

\* Steps: the dispatcher starts a call; the call of the invocation completes.
Starts == calls' = calls + 1
Completes == inv[1].pc = "awaiting" /\ inv'[1].pc = "done"

\* The entry stored for the call's sequence when the call was made has a
\* last_activation_ts > 0 that lies at least the timeout back.
StoredTimedOut ==
  LET i == inv[1]
  IN /\ i.locals.key \in DOMAIN Entries(store)
     /\ Entries(store)[i.locals.key]["ts"] > 0
     /\ i.call_time - Entries(store)[i.locals.key]["ts"] >= i.data[TIMEOUT_PROPERTY].v

\* That entry is not older than the retention window at call time.
StoredWithinRetention ==
  LET i == inv[1]
  IN i.call_time - Entries(store)[i.locals.key]["last_used"] <= CLEANUP_AGE_SECONDS

\* The entry now stored for the call's sequence.
StoredEntry == Entries(store)[inv[1].locals.key]

\* C1 as stated: in a run of successive completed no-timeout calls on S that
\* started from a store without an entry for S, the k-th call (k from 0)
\* activates S[k mod len(S)].
C1_Original ==
  inv[1].pc = "done" /\ run.n >= 1
    => inv[1].locals.target_scene = run.scenes[((run.n - 1) % Len(run.scenes)) + 1]

\* C1 (amended): the same, for runs in which no call comes more than
\* CLEANUP_AGE_SECONDS after the store write of the call before it.
C1_RoundRobinWithinRetention ==
  inv[1].pc = "done" /\ run.n >= 1 /\ run.fresh
    => inv[1].locals.target_scene = run.scenes[((run.n - 1) % Len(run.scenes)) + 1]

\* The third call of such a run on a sequence of two scenes has wrapped
\* around to the first scene.
C1_Witness ==
  /\ inv[1].pc = "done"
  /\ run.n = 3 /\ run.fresh
  /\ run.scenes = <<"a", "b">>
  /\ inv[1].locals.target_scene = "a"

\* What the state-match check says of the last scene of the call's sequence:
\* the states are those of the time of the call until the next call.
LastSceneMatches ==
  /\ inv[1].locals.scenes # <<>>
  /\ is_current_state_matching_scene(hass, Last(inv[1].locals.scenes))

\* The call has activated the last scene and stored index 0 and
\* last_activation_ts 0.
JumpedToLast ==
  /\ inv[1].locals.target_scene = Last(inv[1].locals.scenes)
  /\ inv[1].locals.key \in DOMAIN Entries(store)
  /\ StoredEntry["idx"] = 0
  /\ StoredEntry["ts"] = 0

\* C2 as stated: a completed call with a timeout configured, a stored
\* last_activation_ts > 0 at least the timeout back and no match of the last
\* scene activates the last scene and stores index 0, last_activation_ts 0.
C2_Original ==
  [][Completes /\ TimeoutConfigured(inv[1].data) /\ StoredTimedOut
       /\ ~LastSceneMatches
     => JumpedToLast']_vars

\* C2 (amended): the same, when the stored entry is not older than
\* CLEANUP_AGE_SECONDS at call time.
C2_JumpToLastWithinRetention ==
  [][Completes /\ TimeoutConfigured(inv[1].data) /\ StoredTimedOut
       /\ StoredWithinRetention /\ ~LastSceneMatches
     => JumpedToLast']_vars

\* A call on three scenes took the timeout branch without a match.
C2_Witness ==
  /\ inv[1].pc = "done"
  /\ TimeoutConfigured(inv[1].data)
  /\ inv[1].locals.queried /\ ~LastSceneMatches
  /\ inv[1].locals.scenes = <<"a", "b", "c">>
  /\ JumpedToLast

\* The call has activated the first scene and stored index 1 and the call
\* time as last_activation_ts.
SkippedToSecond ==
  /\ inv[1].locals.target_scene = inv[1].locals.scenes[1]
  /\ inv[1].locals.key \in DOMAIN Entries(store)
  /\ StoredEntry["idx"] = 1
  /\ StoredEntry["ts"] = inv[1].call_time

\* C3 as stated: as C2, with a match of the last scene: the call activates
\* the first scene and stores index 1 and the call time.
C3_Original ==
  [][Completes /\ TimeoutConfigured(inv[1].data) /\ StoredTimedOut
       /\ LastSceneMatches
     => SkippedToSecond']_vars

\* C3 (amended): the same, when the stored entry is not older than
\* CLEANUP_AGE_SECONDS at call time.
C3_SkipToSecondWithinRetention ==
  [][Completes /\ TimeoutConfigured(inv[1].data) /\ StoredTimedOut
       /\ StoredWithinRetention /\ LastSceneMatches
     => SkippedToSecond']_vars

\* A call on three scenes took the timeout branch with a match.
C3_Witness ==
  /\ inv[1].pc = "done"
  /\ TimeoutConfigured(inv[1].data)
  /\ inv[1].locals.queried /\ LastSceneMatches
  /\ inv[1].locals.scenes = <<"a", "b", "c">>
  /\ SkippedToSecond

\* C4: after every completed call the index stored for the call's sequence
\* is at least 0 and less than the length of the sequence.
C4_IndexInRange ==
  inv[1].pc = "done"
    => /\ inv[1].locals.key \in DOMAIN Entries(store)
       /\ 0 <= StoredEntry["idx"]
       /\ StoredEntry["idx"] < Len(inv[1].locals.scenes)

\* A call of the invocation ends: it returns without scenes, its activation
\* raises, or it completes.
Ends ==
  \/ Starts /\ inv'[1].pc = "returned"
  \/ inv[1].pc = "awaiting" /\ inv'[1].pc \in {"done", "failed"}

\* Every entry that was older than the retention window at the time of the
\* call ending in this step is gone from the store after it: its key is
\* absent, or holds the entry the call wrote for its own sequence.
ExpiredGone ==
  \A k \in DOMAIN Entries(store) :
    inv'[1].call_time - Entries(store)[k]["last_used"] > CLEANUP_AGE_SECONDS
      => \/ k \notin DOMAIN Entries(store')
         \/ /\ k = inv'[1].locals.key
            /\ Entries(store')[k]["last_used"] >= inv'[1].call_time

C6_OneActivationThenOneWrite ==
  inv[1].pc \in {"done", "failed", "raised"} /\ ~NoSceneList(inv[1].data)
    => inv[1].events = <<"activate", "activated", "write">>

\* C7: a call without a scene list returns at once: no error, no activation,
\* no store write, the store (expired entries included) as it was; and
\* nothing of the invocation follows its return.
C7_NoSceneListIsNoOp ==
  [][/\ Starts /\ NoSceneList(inv'[1].data)
          => /\ inv'[1].pc = "returned"
             /\ inv'[1].events = <<>>
             /\ store' = store
     /\ inv[1].pc = "returned" /\ ~Starts
          => inv'[1] = inv[1] /\ store' = store]_vars

\* A call with a dict that has no entity_id has returned and left an expired
\* entry in the store.
C7_Witness ==
  /\ inv[1].pc = "returned"
  /\ "scenes" \in DOMAIN inv[1].data
  /\ inv[1].data["scenes"].type = "dict"
  /\ "entity_id" \notin DOMAIN inv[1].data["scenes"].v
  /\ \E k \in DOMAIN Entries(store) :
       inv[1].call_time - Entries(store)[k]["last_used"] > CLEANUP_AGE_SECONDS

\* C8: whatever the store sensor holds that is no well-formed store, a call
\* with a scene list does not fail, activates the first scene, and leaves a
\* well-formed store with an entry for its sequence.
C8_MalformedStoreIsEmptyStore ==
  [][/\ Starts /\ ~NoSceneList(inv'[1].data) /\ ~WellFormedStore(store)
          => /\ inv'[1].pc = "awaiting"
             /\ inv'[1].locals.target_scene = inv'[1].locals.scenes[1]
     /\ Completes /\ ~WellFormedStore(store)
          => /\ WellFormedStore(store')
             /\ inv[1].locals.key \in DOMAIN Entries(store')]_vars

\* The call data with scene argument s and timeout t (None: not given).
CallWith(s, t) ==
  IF t.type = "NoneType" THEN [scenes |-> s]
  ELSE [scenes |-> s, go_to_last_timeout |-> t]

\* No call is under way: the dispatcher may take one.
MayCall == \A q \in Procs : inv[q].pc # "awaiting"

\* C9: from the same store, time, timeout and states, a call with the scene
\* list wrapped as {entity_id: L} does what the call with the bare list L
\* does: same outcome, same scene, same store written.
C9_WrappedListSameAsBare ==
  MayCall =>
  \A L \in Sequences \cup {<<>>}, t \in {PyNone, PyNum(0), PyNum(TimeoutSeconds)} :
    LET bare == handle_sequence(CallWith(PyList(L), t), store, hass, clock)
        wrapped == handle_sequence(CallWith(PyDict([entity_id |-> L]), t), store, hass, clock)
    IN /\ wrapped.status = bare.status
       /\ wrapped.locals.target_scene = bare.locals.target_scene
       /\ StoreAfter(wrapped.locals, clock) = StoreAfter(bare.locals, clock)

\* A call with a wrapped list of three scenes has completed as the second of
\* its run.
C9_Witness ==
  /\ inv[1].pc = "done"
  /\ inv[1].data["scenes"].type = "dict"
  /\ inv[1].locals.scenes = <<"a", "b", "c">>
  /\ inv[1].locals.target_scene = "b"
  /\ StoredEntry["idx"] = 2

\* C11: from every store, time and live states, a call with timeout 0 does
\* not take the timeout branch (so it does not ask the state-match check) and
\* does what the same call without a timeout does: same outcome, same scene,
\* same entry and store written.
C11_ZeroTimeoutIsNoTimeout ==
  MayCall =>
  \A L \in Sequences :
    LET zero == handle_sequence(CallWith(PyList(L), PyNum(0)), store, hass, clock)
        none == handle_sequence(CallWith(PyList(L), PyNone), store, hass, clock)
    IN /\ ~zero.locals.queried
       /\ zero = none
       /\ zero.status = "awaiting"
            => /\ NewEntry(zero.locals, clock) = NewEntry(none.locals, clock)
               /\ StoreAfter(zero.locals, clock) = StoreAfter(none.locals, clock)

\* A call with timeout 0 is under way on a stored last_activation_ts > 0 that
\* lies TimeoutSeconds back or more, and it has not taken the timeout branch.
C11_Witness ==
  /\ inv[1].pc = "awaiting"
  /\ TIMEOUT_PROPERTY \in DOMAIN inv[1].data
  /\ inv[1].data[TIMEOUT_PROPERTY] = PyNum(0)
  /\ inv[1].locals.key \in DOMAIN Entries(store)
  /\ StoredEntry["ts"] > 0
  /\ inv[1].call_time - StoredEntry["ts"] >= TimeoutSeconds
  /\ inv[1].call_time - StoredEntry["last_used"] <= CLEANUP_AGE_SECONDS
  /\ ~inv[1].locals.queried
  /\ inv[1].locals.target_scene = "b"

\* C13: the entry a completed call has written has last_activation_ts 0
\* exactly when its index is 0, and otherwise the time of the call (the
\* clock as read before the scene activation, not the time of the write).
C13_TsZeroIffIndexZero ==
  inv[1].pc = "done"
    => /\ inv[1].locals.key \in DOMAIN Entries(store)
       /\ StoredEntry["ts"] = 0 <=> StoredEntry["idx"] = 0
       /\ StoredEntry["idx"] # 0 => StoredEntry["ts"] = inv[1].call_time

\* A completed call made after time 1 has stored a non-zero index with the
\* time of the call, its write having come later.
C13_Witness ==
  /\ inv[1].pc = "done"
  /\ StoredEntry["idx"] = 2
  /\ StoredEntry["ts"] = inv[1].call_time
  /\ StoredEntry["last_used"] > inv[1].call_time
  /\ inv[1].call_time > 1

\* The call that starts in this step is the first ever on its sequence (the
\* store holds no entry under its key), or comes next after a completed call
\* on the same sequence that activated the sequence's last scene.
StartsDisarmed ==
  /\ Starts
  /\ inv'[1].pc = "awaiting"
  /\ \/ inv'[1].locals.key \notin DOMAIN Entries(store)
     \/ /\ inv[1].pc = "done"
        /\ inv[1].locals.scenes = inv'[1].locals.scenes
        /\ inv[1].locals.target_scene = Last(inv[1].locals.scenes)

\* C14: such a call activates the first scene of its sequence and does not
\* take the timeout branch, whatever the time and the live states.
C14_DisarmedAtCycleStart ==
  [][StartsDisarmed
       => /\ inv'[1].locals.target_scene = inv'[1].locals.scenes[1]
          /\ ~inv'[1].locals.queried]_vars

\* The keys, other than the call's own, of the entries not older than the
\* retention window at the time of the call.
KeptKeys ==
  {k \in DOMAIN Entries(store) \ {inv[1].locals.key} :
     inv[1].call_time - Entries(store)[k]["last_used"] <= CLEANUP_AGE_SECONDS}

\* C15: the store write of a call leaves every entry under another key that
\* is not older than 10 days at call time (exactly 10 days included) in the
\* store as it was and adds no entry but the call's own; and no other step
\* of a call changes the store.
C15_OtherEntriesUnchanged ==
  [][/\ Completes
          => /\ \A k \in KeptKeys :
                  /\ k \in DOMAIN Entries(store')
                  /\ Entries(store')[k] = Entries(store)[k]
             /\ DOMAIN Entries(store') = KeptKeys \cup {inv[1].locals.key}
     /\ ~Completes => store' = store]_vars

\* A completed call has left in place the entry of another sequence that was
\* exactly 10 days old when the call was made.
C15_Witness ==
  /\ inv[1].pc = "done"
  /\ \E k \in DOMAIN Entries(store) \ {inv[1].locals.key} :
       /\ inv[1].call_time - Entries(store)[k]["last_used"] = CLEANUP_AGE_SECONDS
       /\ Entries(store)[k]["idx"] = 1

\* The store holds an entry for the sequence of invocation record i that was
\* last used more than the retention window before the call was made.
OwnEntryExpired(i) ==
  /\ i.locals.key \in DOMAIN Entries(store)
  /\ i.call_time - Entries(store)[i.locals.key]["last_used"] > CLEANUP_AGE_SECONDS

\* C16: a call on a sequence whose entry was last used more than 10 days
\* before finds no entry: it activates the first scene without taking the
\* timeout branch, whatever timeout it has and whatever last_activation_ts
\* was stored, and on completion stores index 1 mod len(S).
C16_ExpiredEntryIsNoEntry ==
  [][/\ Starts /\ inv'[1].pc = "awaiting" /\ OwnEntryExpired(inv'[1])
          => /\ inv'[1].locals.target_scene = inv'[1].locals.scenes[1]
             /\ ~inv'[1].locals.queried
     /\ Completes /\ OwnEntryExpired(inv[1])
          => /\ inv[1].locals.key \in DOMAIN Entries(store')
             /\ Entries(store')[inv[1].locals.key]["idx"]
                  = 1 % Len(inv[1].locals.scenes)]_vars

\* A call with a timeout is under way on three scenes whose entry, with index
\* 2 and a last_activation_ts > 0 more than the timeout back, was last used
\* more than 10 days before: it activates the first scene, not the third.
C16_Witness ==
  /\ inv[1].pc = "awaiting"
  /\ TimeoutConfigured(inv[1].data)
  /\ OwnEntryExpired(inv[1])
  /\ inv[1].locals.scenes = <<"a", "b", "c">>
  /\ StoredEntry["idx"] = 2
  /\ StoredEntry["ts"] > 0
  /\ inv[1].call_time - StoredEntry["ts"] >= inv[1].data[TIMEOUT_PROPERTY].v
  /\ inv[1].locals.target_scene = "a"
  /\ inv[1].locals.new_idx = 1

\* C17: a call whose scene activation raises writes nothing, then or later:
\* the store stays what it was before the call, with the index of the
\* call's sequence not advanced and the entries the call had dropped from
\* its own mapping still in it.
C17_FailedActivationWritesNothing ==
  [][/\ inv[1].pc = "awaiting" /\ inv'[1].pc = "failed"
          => /\ store' = store
             /\ inv'[1].events = <<"activate", "error">>
     /\ inv[1].pc = "failed" /\ ~Starts
          => store' = store /\ inv'[1] = inv[1]]_vars

\* The activation of a call has failed; the store still holds the entry of
\* the call's sequence with the index it had, and an expired entry that the
\* call had dropped from its mapping.
C17_Witness ==
  /\ inv[1].pc = "failed"
  /\ inv[1].locals.key \in DOMAIN Entries(store)
  /\ inv[1].locals.key \notin inv[1].locals.keys_to_remove
  /\ inv[1].locals.new_idx # StoredEntry["idx"]
  /\ inv[1].locals.keys_to_remove # {}
  /\ inv[1].locals.keys_to_remove \subseteq DOMAIN Entries(store)

\* ------------------------------------------- claims on overlapping calls
\* Both invocations have completed, and the second of them read the store
\* before the first wrote it.
BothDoneOverlapped ==
  /\ race.overlapped
  /\ \A p \in Procs : inv[p].pc = "done"
  /\ Len(race.writers) = 2

LastWriter == race.writers[2].p

\* The mapping invocation p computes from the store it read: that store's
\* entries less those expired at the time of its call, with its own entry as
\* written at time `at`.
MappingOf(p, at) ==
  LET snapshot == Cleanup(LoadMapping(race.read[p]), inv[p].call_time).m
      key == inv[p].locals.key
  IN [k \in DOMAIN snapshot \cup {key} |->
        IF k = key
        THEN [idx |-> inv[p].locals.new_idx, ts |-> inv[p].locals.now_ts,
              last_used |-> at]
        ELSE snapshot[k].m]

\* The entry invocation p found for its sequence in the store it read.
FoundEntry(p) ==
  Get(Cleanup(LoadMapping(race.read[p]), inv[p].call_time).m,
      inv[p].locals.key, DefaultEntry).m

\* The store is the last writer's mapping, whatever the first writer wrote.
LastWriterWins ==
  /\ WellFormedStore(store)
  /\ Entries(store) = MappingOf(LastWriter, race.writers[2].at)

\* Both invocations activated the same scene, and the stored index is one
\* position past the one the last writer found.
SameSceneOneAdvance ==
  /\ inv[1].locals.target_scene = inv[2].locals.target_scene
  /\ Entries(store)[inv[LastWriter].locals.key]["idx"]
       = (FoundEntry(LastWriter)["idx"] + 1) % Len(inv[LastWriter].locals.scenes)

\* C12 as stated: after two overlapping invocations the store is the last
\* writer's mapping, and when both were on the same sequence they activated
\* the same scene and the index has advanced by one position.
C12_Original ==
  BothDoneOverlapped
    => /\ LastWriterWins
       /\ inv[1].locals.scenes = inv[2].locals.scenes => SameSceneOneAdvance

\* Neither invocation took the timeout branch, and the entry of p's sequence
\* expired for both or for neither.
SameReading ==
  /\ \A p \in Procs : ~inv[p].locals.queried
  /\ inv[1].locals.key \in inv[1].locals.keys_to_remove
       <=> inv[2].locals.key \in inv[2].locals.keys_to_remove

\* C12 (amended): the same, the second part for two invocations on the same
\* sequence that do not take the timeout branch and between whose reads the
\* sequence's entry does not expire.
C12_LastWriterWins ==
  BothDoneOverlapped
    => /\ LastWriterWins
       /\ inv[1].locals.scenes = inv[2].locals.scenes /\ SameReading
            => SameSceneOneAdvance

\* Two overlapping invocations on the same three scenes both activated "b",
\* and the index went from 1 to 2; the store they read held another
\* sequence's entry too.
C12_Witness ==
  /\ BothDoneOverlapped
  /\ inv[1].locals.scenes = <<"a", "b", "c">>
  /\ inv[2].locals.scenes = <<"a", "b", "c">>
  /\ inv[1].locals.target_scene = "b"
  /\ inv[2].locals.target_scene = "b"
  /\ FoundEntry(LastWriter)["idx"] = 1
  /\ Entries(store)[inv[LastWriter].locals.key]["idx"] = 2
  /\ Cardinality(DOMAIN Entries(store)) = 2

====
